---- MODULE Spec2Model ----
(***************************************************************************)
(* Model of the DocuBot crawl pipeline: WebCrawler.crawl_website_recursive *)
(* with its per-round fetch tasks (crawl_with_semaphore, crawl_single_url) *)
(* and the link policy (_should_crawl_link).                               *)
(*                                                                         *)
(* A URL is a sequence of tokens (scheme, host, path pieces, suffixes), so *)
(* Python's substring test `pattern in link` is a contiguous-subsequence   *)
(* test and urlparse(link).netloc is the token after the scheme.           *)
(***************************************************************************)
EXTENDS Integers, Sequences, FiniteSets, TLC

\* ---------------------------------------------------------------- bounds
\* Largest max_pages argument a caller passes.
MaxPagesArg == 2
\* Largest max_depth argument a caller passes.
MaxDepthArg == 3
\* Largest settings.max_concurrent_requests of a deployment.
MaxConcurrent == 2
\* settings.max_crawl_depth and settings.max_pages_per_domain of the
\* deployment (environment-configurable fields of Settings).
CfgCrawlDepth == 2
CfgPagesPerDomain == 4
\* Longest page content handed to _split_content_into_chunks, in characters.
MaxContentLen == 5
\* Largest chunk_size a caller passes to _split_content_into_chunks.
MaxChunkSize == 4
\* Most chunks the splitting loop is followed for.
MaxChunks == 6
\* Most pages a crawl hands to the indexing loop of crawl_and_index_website.
MaxCrawled == 2
\* Most chunks that calls of crawl_and_index_url have in the collection.
MaxUrlChunks == 1
\* Most direct calls of crawl_single_url made on one WebCrawler.
MaxCalls == 2
\* Rows of a table element and cells of a row.
MaxRows == 2
MaxCells == 2

\* An optional integer argument: None when omitted, else Some(n).
None == <<>>
Some(n) == <<n>>

\* ------------------------------------------------------------------ URLs
Scheme == "http://"
Seed == <<Scheme, "docs.example", "/">>
PageA == <<Scheme, "docs.example", "/a">>
PageB == <<Scheme, "docs.example", "/b">>
OffDomain == <<Scheme, "other.example", "/a">>
PdfLink == <<Scheme, "docs.example", "/a", ".pdf">>
EmptyLink == <<>>
\* An href whose host part opens a bracket that is never closed.
MalformedLink == <<Scheme, "[">>

\* The result["links"] lists a fetched page may carry: no link, a chain, a
\* fan-out, the same link twice, a link back to the seed, the rejected kinds
\* (another host, an excluded suffix, an empty href, an href urlparse cannot
\* read), and a link that a sibling page carries too.
LinkLists ==
    { <<>>,
      <<PageA>>,
      <<PageA, PageA>>,
      <<PageA, PageB>>,
      <<Seed, PageB>>,
      <<PageB, OffDomain>>,
      <<OffDomain, PdfLink, EmptyLink, MalformedLink>> }

\* urlparse(link) raises ValueError ("Invalid IPv6 URL") on a host with an
\* unmatched bracket.
UrlparseRaises(link) ==
    Len(link) >= 2 /\ link[1] = Scheme /\ link[2] = "["

\* urlparse(link).netloc
Netloc(link) == IF Len(link) >= 2 /\ link[1] = Scheme THEN link[2] ELSE ""

\* Python's `pattern in link` on strings.
Contains(pattern, link) ==
    \E i \in 0..(Len(link) - Len(pattern)) :
        SubSeq(link, i + 1, i + Len(pattern)) = pattern

\* The default exclude_patterns of crawl_website_recursive (the patterns
\* that occur in the modelled alphabet).
DefaultExcludePatterns == << <<"#">>, <<"mailto:">>, <<".pdf">>, <<".jpg">> >>
DefaultIncludePatterns == <<>>

VARIABLES
    settings,         \* the Settings the crawler was constructed under
    pc,               \* position of crawl_website_recursive
    max_pages,        \* local max_pages after defaulting
    max_depth,        \* local max_depth after defaulting
    visited_urls,     \* self.visited_urls
    crawl_queue,      \* self.crawl_queue
    crawled_pages,    \* crawled_pages
    current_depth,    \* current_depth
    current_batch,    \* current_batch of the round
    semaphore,        \* free slots of the round's asyncio.Semaphore
    task_pc,          \* position of each crawl_with_semaphore task
    results,          \* what each task returned (or raised)
    queue_depth,      \* history: link level of each crawl_queue entry
    batch_depth,      \* history: link level of each current_batch entry
    fetch_log,        \* history: fetches started, in order
    inflight,         \* history: fetches started and not yet finished
    rounds,           \* history: number of rounds started
    outcomes,         \* history: how each task of each round ended
    args              \* history: the arguments of the invocation

crawl_vars == <<settings, pc, max_pages, max_depth, visited_urls, crawl_queue,
                crawled_pages, current_depth, current_batch, semaphore,
                task_pc, results, queue_depth, batch_depth, fetch_log,
                inflight, rounds, outcomes, args>>

\* One call of _should_crawl_link, taken on its own.
VARIABLES
    policy_pc,        \* position of the call
    policy_link,      \* argument link
    policy_include,   \* argument include_patterns
    policy_exclude,   \* argument exclude_patterns
    should_crawl      \* the value returned

policy_vars == <<policy_pc, policy_link, policy_include, policy_exclude,
                 should_crawl>>

\* One call of EnhancedRAGSystem._split_content_into_chunks and the documents
\* crawl_and_index_with_context7 builds from its chunks.
VARIABLES
    split_pc,          \* position of the call
    content,           \* argument content
    chunk_size,        \* argument chunk_size
    overlap,           \* argument overlap
    start,             \* local start
    end,               \* local end of the last iteration
    chunks,            \* local chunks
    windows,           \* history: the [start, end) of each iteration so far
    crawled_documents  \* crawled_documents of crawl_and_index_with_context7

split_vars == <<split_pc, content, chunk_size, overlap, start, end, chunks,
                windows, crawled_documents>>

\* One call of RAGSystem.crawl_and_index_website, from the return of the
\* crawl on.
VARIABLES
    index_pc,         \* position of crawl_and_index_website
    crawl_results,    \* crawl_results
    page_no,          \* position of the loop over crawl_results
    indexed_pages,    \* indexed_pages
    total_chunks,     \* total_chunks
    collection,       \* what self.collection has been given and has kept
    index_result,     \* the dict returned to the caller
    page_log          \* history: what became of each page and each add

index_vars == <<index_pc, crawl_results, page_no, indexed_pages, total_chunks,
                collection, index_result, page_log>>

\* Direct calls of crawl_single_url on the WebCrawler, as
\* crawl_and_index_with_context7 makes them.
VARIABLES
    call_log          \* the direct calls: URL and outcome, "pending" in flight

reuse_vars == <<call_log>>

\* One call of a function that produces a page result: crawl_url_with_exa,
\* crawl_url_fallback or crawl_single_url.
VARIABLES
    result_pc,        \* position of the call
    result_url,       \* argument url
    mcp_client,       \* whether self.mcp_client is set
    use_mcp,          \* settings.use_mcp_for_crawling
    exa_reply,        \* what self.mcp_client.call_tool does
    http_reply,       \* what self.session.get does
    producer,         \* the function that was called
    page_result       \* the dict it returned

result_vars == <<result_pc, result_url, mcp_client, use_mcp, exa_reply,
                 http_reply, producer, page_result>>

\* The state of the functions that are looked at apart from a crawl.
\* One table element of a page, converted and extracted.
VARIABLES
    table_pc,         \* position of the conversion
    table_element,    \* the <tr> rows of the table, each a list of cell texts
    extract_tables,   \* settings.extract_tables
    table_markdown,   \* what _convert_table_to_markdown returned
    tables            \* what _extract_tables returned

table_vars == <<table_pc, table_element, extract_tables, table_markdown,
               tables>>

aux_vars == <<policy_vars, split_vars, index_vars, reuse_vars, result_vars,
              table_vars>>

vars == <<crawl_vars, aux_vars>>

\* ------------------------------------------------------------- results
Pending == [kind |-> "pending", success |-> FALSE, url |-> <<>>,
            links |-> <<>>, error |-> ""]

PageOk(url, links) == [kind |-> "result", success |-> TRUE, url |-> url,
                       links |-> links, error |-> ""]

PageFailed(url, error) == [kind |-> "result", success |-> FALSE, url |-> url,
                           links |-> <<>>, error |-> error]

\* An exception object that asyncio.gather(return_exceptions=True) returns
\* in place of the task's result.
Raised == [kind |-> "exception", success |-> FALSE, url |-> <<>>,
           links |-> <<>>, error |-> "Exception"]

\* What crawl_url_with_exa / crawl_url_fallback can produce for a URL.
FetchOutcomes(url) ==
    {PageOk(url, links) : links \in LinkLists}
        \cup {PageFailed(url, "HTTP 500"), Raised}

\* ----------------------------------------------------------- link policy
AnyPattern(patterns, link) ==
    \E k \in 1..Len(patterns) : Contains(patterns[k], link)

\* Mutation of _should_crawl_link: the same_domain_only test is left out.
ShouldCrawlAnyDomain(link, include_patterns, exclude_patterns, base_domain) ==
    IF link \in visited_urls THEN FALSE
    ELSE IF UrlparseRaises(link) THEN FALSE
    ELSE IF AnyPattern(exclude_patterns, link) THEN FALSE
    ELSE IF Len(include_patterns) > 0 THEN AnyPattern(include_patterns, link)
    ELSE TRUE

\* Mutation of _should_crawl_link: the include list is consulted before the
\* exclude list.
ShouldCrawlIncludeFirst(link, include_patterns, exclude_patterns, base_domain) ==
    IF link \in visited_urls THEN FALSE
    ELSE IF UrlparseRaises(link) THEN FALSE
    ELSE IF settings.same_domain_only /\ base_domain # Netloc(link) THEN FALSE
    ELSE IF Len(include_patterns) > 0 THEN AnyPattern(include_patterns, link)
    ELSE ~AnyPattern(exclude_patterns, link)

\* Lines 846-877. base_domain is the netloc of start_url (line 733); when it
\* is empty the code recomputes the same value from base_url (line 858). A
\* link urlparse raises on is refused by the bare except of lines 862-863.
_should_crawl_link(link, include_patterns, exclude_patterns, base_domain) ==
    IF link \in visited_urls THEN FALSE
    ELSE IF UrlparseRaises(link) THEN FALSE
    ELSE IF settings.same_domain_only /\ base_domain # Netloc(link) THEN FALSE
    ELSE IF AnyPattern(exclude_patterns, link) THEN FALSE
    ELSE IF Len(include_patterns) > 0 THEN AnyPattern(include_patterns, link)
    ELSE TRUE

\* The test of line 784: the link is non-empty, unvisited and passes the policy.
LinkAccepted(link_url) ==
    /\ link_url # EmptyLink
    /\ link_url \notin visited_urls
    /\ _should_crawl_link(link_url, DefaultIncludePatterns,
                          DefaultExcludePatterns, Netloc(Seed))

\* Python's `x or default` on an optional integer: None and 0 are falsy.
OrDefault(x, default) ==
    IF x = None THEN default ELSE IF x[1] = 0 THEN default ELSE x[1]

\* No call of _should_crawl_link is being looked at.
PolicyIdle ==
    /\ policy_pc = "idle"
    /\ policy_link = <<>>
    /\ policy_include = <<>>
    /\ policy_exclude = <<>>
    /\ should_crawl = FALSE

\* No call of _split_content_into_chunks is being looked at.
SplitIdle ==
    /\ split_pc = "idle"
    /\ content = <<>>
    /\ chunk_size = 0
    /\ overlap = 0
    /\ start = 0
    /\ end = 0
    /\ chunks = <<>>
    /\ windows = {}
    /\ crawled_documents = <<>>

\* No call of crawl_and_index_website is being looked at.
IndexIdle ==
    /\ index_pc = "idle"
    /\ crawl_results = <<>>
    /\ page_no = 0
    /\ indexed_pages = <<>>
    /\ total_chunks = 0
    /\ collection = <<>>
    /\ index_result = [success |-> FALSE, keys |-> {}]
    /\ page_log = <<>>

\* No page-result function is being looked at.
ResultIdle ==
    /\ result_pc = "idle"
    /\ result_url = <<>>
    /\ mcp_client = FALSE
    /\ use_mcp = FALSE
    /\ exa_reply = [kind |-> "none"]
    /\ http_reply = [kind |-> "none"]
    /\ producer = ""
    /\ page_result = [keys |-> {}]

\* No table is being looked at.
TableIdle ==
    /\ table_pc = "idle"
    /\ table_element = <<>>
    /\ extract_tables = TRUE
    /\ table_markdown = <<>>
    /\ tables = <<>>

\* ------------------------------------------------------------ construction
\* Settings() as the deployment's environment configures it.
SettingsChoices ==
    [max_crawl_depth : {CfgCrawlDepth},
     max_pages_per_domain : {CfgPagesPerDomain},
     max_concurrent_requests : 1..MaxConcurrent,
     same_domain_only : BOOLEAN]

\* The Settings of a deployment that keeps the same_domain_only default.
DeploymentSettings ==
    CHOOSE st \in SettingsChoices :
        st.same_domain_only /\ st.max_concurrent_requests = MaxConcurrent

\* No call of crawl_website_recursive has been made: its locals do not exist
\* yet and self.crawl_queue is the empty list of __init__.
NoCrawl ==
    /\ pc = "idle"
    /\ max_pages = 0
    /\ max_depth = 0
    /\ crawl_queue = <<>>
    /\ crawled_pages = <<>>
    /\ current_depth = 0
    /\ current_batch = <<>>
    /\ semaphore = 0
    /\ task_pc = <<>>
    /\ results = <<>>
    /\ queue_depth = <<>>
    /\ batch_depth = <<>>
    /\ fetch_log = <<>>
    /\ inflight = {}
    /\ rounds = 0
    /\ outcomes = {}
    /\ args = [max_pages |-> None, max_depth |-> None]

\* WebCrawler.__init__: nothing visited, nothing queued, no crawl running.
Init ==
    /\ settings \in SettingsChoices
    /\ visited_urls = {}
    /\ NoCrawl
    /\ PolicyIdle
    /\ SplitIdle
    /\ IndexIdle
    /\ call_log = <<>>
    /\ ResultIdle
    /\ TableIdle

\* --------------------------------------------------- crawl_website_recursive
\* Lines 727-749: default the budgets, reset the frontier to the seed.
Invoke(start_url, mp, md) ==
    /\ pc = "idle"
    /\ args' = [max_pages |-> mp, max_depth |-> md]
    /\ max_pages' = OrDefault(mp, settings.max_pages_per_domain)
    /\ max_depth' = OrDefault(md, settings.max_crawl_depth)
    /\ visited_urls' = {}
    /\ crawl_queue' = <<start_url>>
    /\ queue_depth' = <<0>>
    /\ crawled_pages' = <<>>
    /\ current_depth' = 0
    /\ pc' = "while"
    /\ UNCHANGED <<settings, current_batch, semaphore, task_pc, results,
                   batch_depth, fetch_log, inflight, rounds, outcomes>>
    /\ UNCHANGED aux_vars

\* The loop test of line 751.
WhileCondition ==
    /\ Len(crawl_queue) > 0
    /\ Len(crawled_pages) < max_pages
    /\ current_depth < max_depth

\* Lines 752-764: take the whole queue as the batch, make the round's
\* semaphore and start one crawl_with_semaphore task per batch entry.
StartRound ==
    /\ pc = "while"
    /\ WhileCondition
    /\ current_batch' = crawl_queue
    /\ batch_depth' = queue_depth
    /\ crawl_queue' = <<>>
    /\ queue_depth' = <<>>
    /\ semaphore' = settings.max_concurrent_requests
    /\ task_pc' = [i \in 1..Len(crawl_queue) |-> "waiting"]
    /\ results' = [i \in 1..Len(crawl_queue) |-> Pending]
    /\ rounds' = rounds + 1
    /\ pc' = "gather"
    /\ UNCHANGED <<settings, max_pages, max_depth, visited_urls, crawled_pages,
                   current_depth, fetch_log, inflight, outcomes, args>>
    /\ UNCHANGED aux_vars

\* Line 794: the loop test fails, crawled_pages is returned.
Return ==
    /\ pc = "while"
    /\ ~WhileCondition
    /\ pc' = "returned"
    /\ UNCHANGED <<settings, max_pages, max_depth, visited_urls, crawl_queue,
                   crawled_pages, current_depth, current_batch, semaphore,
                   task_pc, results, queue_depth, batch_depth, fetch_log,
                   inflight, rounds, outcomes, args>>
    /\ UNCHANGED aux_vars

\* ------------------------------------------------------ crawl_with_semaphore
\* Mutation of SlotFree: the tasks start without a concurrency limit.
SlotAlwaysFree == TRUE

\* `async with semaphore` succeeds while a slot is free.
SlotFree == semaphore > 0

\* Line 759: a task enters the semaphore. asyncio starts the tasks in batch
\* order and wakes semaphore waiters first-in first-out.
Acquire(i) ==
    /\ pc = "gather"
    /\ task_pc[i] = "waiting"
    /\ \A j \in 1..(i - 1) : task_pc[j] # "waiting"
    /\ SlotFree
    /\ semaphore' = semaphore - 1
    /\ task_pc' = [task_pc EXCEPT ![i] = "sleeping"]
    /\ UNCHANGED <<settings, pc, max_pages, max_depth, visited_urls,
                   crawl_queue, crawled_pages, current_depth, current_batch,
                   results, queue_depth, batch_depth, fetch_log, inflight,
                   rounds, outcomes, args>>
    /\ UNCHANGED aux_vars

\* Mutation of AlreadyVisited: crawl_single_url fetches without looking at
\* visited_urls.
NeverVisited(url) == FALSE

\* The test of line 806.
AlreadyVisited(url) == url \in visited_urls

\* Lines 760-761 and 806-814: the delay is over and crawl_single_url runs up
\* to its first await: a visited URL is skipped (the task returns and leaves
\* the semaphore), any other is marked visited and its fetch starts.
BeginFetch(i) ==
    /\ pc = "gather"
    /\ task_pc[i] = "sleeping"
    /\ LET url == current_batch[i] IN
        IF AlreadyVisited(url)
        THEN /\ results' = [results EXCEPT ![i] = PageFailed(url, "Already visited")]
             /\ task_pc' = [task_pc EXCEPT ![i] = "done"]
             /\ semaphore' = semaphore + 1
             /\ outcomes' = outcomes \cup
                    {[url |-> url, round |-> current_depth, task |-> i,
                      kind |-> "skipped"]}
             /\ UNCHANGED <<visited_urls, fetch_log, inflight>>
        ELSE /\ visited_urls' = visited_urls \cup {url}
             /\ task_pc' = [task_pc EXCEPT ![i] = "fetching"]
             /\ fetch_log' = Append(fetch_log,
                    [url |-> url, depth |-> batch_depth[i], round |-> current_depth])
             /\ inflight' = inflight \cup {[task |-> i, depth |-> batch_depth[i]]}
             /\ UNCHANGED <<results, semaphore, outcomes>>
    /\ UNCHANGED <<settings, pc, max_pages, max_depth, crawl_queue,
                   crawled_pages, current_depth, current_batch, queue_depth,
                   batch_depth, rounds, args>>
    /\ UNCHANGED aux_vars

\* Lines 816-823: the fetch (Exa first when configured, else the fallback
\* GET) ends with a page, a failed result or an exception; the task leaves
\* the semaphore.
FinishFetch(i) ==
    /\ pc = "gather"
    /\ task_pc[i] = "fetching"
    /\ \E outcome \in FetchOutcomes(current_batch[i]) :
        /\ results' = [results EXCEPT ![i] = outcome]
        /\ outcomes' = outcomes \cup
                {[url |-> current_batch[i], round |-> current_depth, task |-> i,
                  kind |-> IF outcome.kind = "exception" THEN "raised"
                           ELSE IF outcome.success THEN "ok" ELSE "failed"]}
    /\ task_pc' = [task_pc EXCEPT ![i] = "done"]
    /\ semaphore' = semaphore + 1
    /\ inflight' = inflight \ {[task |-> i, depth |-> batch_depth[i]]}
    /\ UNCHANGED <<settings, pc, max_pages, max_depth, visited_urls,
                   crawl_queue, crawled_pages, current_depth, current_batch,
                   queue_depth, batch_depth, fetch_log, rounds, args>>
    /\ UNCHANGED aux_vars

\* ------------------------------------------------------------- merge step
\* Mutation of GatherDone: the round is merged as soon as one task has
\* finished (asyncio.wait with FIRST_COMPLETED in place of gather).
GatherFirstDone == \E i \in 1..Len(task_pc) : task_pc[i] = "done"

\* asyncio.gather returns once every task of the round has finished.
GatherDone == \A i \in 1..Len(task_pc) : task_pc[i] = "done"

\* Line 775: links are followed unless this is the last depth level.
MayEnqueueLinks == current_depth < max_depth - 1

\* Lines 777-788: the links of one page that are appended to crawl_queue.
RECURSIVE LinksToEnqueue(_)
LinksToEnqueue(links) ==
    IF links = <<>> THEN <<>>
    ELSE IF LinkAccepted(Head(links))
         THEN <<Head(links)>> \o LinksToEnqueue(Tail(links))
         ELSE LinksToEnqueue(Tail(links))

RECURSIVE MergeResults(_, _, _)

\* Mutation of OnException: the loop over the results stops at the first
\* exception (`break` for `continue`).
OnExceptionBreak(res, depths, acc) == acc

\* Lines 767-769: an exception in place of a result is logged and skipped.
OnException(res, depths, acc) == MergeResults(Tail(res), Tail(depths), acc)

\* Mutation of Collected: every result is collected, failed ones too.
CollectedAlways(result) == TRUE

\* Line 771: only a result whose success flag is set is collected.
Collected(result) == result.success

\* Lines 766-790: the loop over the round's results, in batch order.
\* acc carries crawled_pages, crawl_queue and the queue entries' link level.
MergeResults(res, depths, acc) ==
    IF res = <<>> THEN acc
    ELSE LET result == Head(res) IN
         IF result.kind = "exception" THEN OnException(res, depths, acc)
         ELSE IF Collected(result)
         THEN LET added == IF MayEnqueueLinks
                           THEN LinksToEnqueue(result.links) ELSE <<>>
              IN MergeResults(Tail(res), Tail(depths),
                    [pages |-> Append(acc.pages, result),
                     queue |-> acc.queue \o added,
                     depth |-> acc.depth \o
                               [k \in 1..Len(added) |-> Head(depths) + 1]])
         ELSE MergeResults(Tail(res), Tail(depths), acc)

\* Mutation of NextDepth: the depth counter is not advanced.
NextDepthStuck(d) == d

\* Line 792: current_depth += 1.
NextDepth(d) == d + 1

\* Lines 764-792: gather returns, the results are merged, depth advances.
Merge ==
    /\ pc = "gather"
    /\ GatherDone
    /\ LET m == MergeResults(results, batch_depth,
                    [pages |-> crawled_pages, queue |-> crawl_queue,
                     depth |-> queue_depth])
       IN /\ crawled_pages' = m.pages
          /\ crawl_queue' = m.queue
          /\ queue_depth' = m.depth
    /\ current_depth' = NextDepth(current_depth)
    /\ pc' = "while"
    /\ UNCHANGED <<settings, max_pages, max_depth, visited_urls, current_batch,
                   semaphore, task_pc, results, batch_depth, fetch_log,
                   inflight, rounds, outcomes, args>>
    /\ UNCHANGED aux_vars

\* ------------------------------------------------------------ specification
BudgetArgs(bound) == {None} \cup {Some(n) : n \in 0..bound}

Next ==
    \/ \E mp \in BudgetArgs(MaxPagesArg), md \in BudgetArgs(MaxDepthArg) :
            Invoke(Seed, mp, md)
    \/ StartRound
    \/ Return
    \/ \E i \in 1..Len(task_pc) : Acquire(i)
    \/ \E i \in 1..Len(task_pc) : BeginFetch(i)
    \/ \E i \in 1..Len(task_pc) : FinishFetch(i)
    \/ Merge

Spec == Init /\ [][Next]_vars

\* The event loop runs whatever can take a step: a task that can enter the
\* semaphore or whose delay is over, a fetch that ends (the aiohttp session
\* has a 30 s total timeout), and crawl_website_recursive itself once gather
\* has its results. Nothing obliges a caller to invoke the crawl.
TaskStep ==
    \E i \in 1..Len(task_pc) : Acquire(i) \/ BeginFetch(i) \/ FinishFetch(i)

CrawlStep == TaskStep \/ StartRound \/ Merge \/ Return

FairSpec == Spec /\ WF_vars(CrawlStep)

\* ------------------------------------------- _should_crawl_link on its own
\* The links and the pattern lists a caller passes to _should_crawl_link.
PolicyLinks ==
    {Seed, PageA, PageB, OffDomain, PdfLink, EmptyLink, MalformedLink}

PatternLists ==
    { <<>>,
      << <<"/a">> >>,
      << <<".pdf">> >>,
      << <<"/b">>, <<".pdf">> >>,
      DefaultExcludePatterns }

\* A crawler that has visited some pages is asked about one link.
PolicyInit ==
    /\ settings \in SettingsChoices
    /\ visited_urls \in SUBSET {PageA, PdfLink}
    /\ NoCrawl
    /\ policy_pc = "called"
    /\ policy_link \in PolicyLinks
    /\ policy_include \in PatternLists
    /\ policy_exclude \in PatternLists
    /\ should_crawl = FALSE
    /\ SplitIdle
    /\ IndexIdle
    /\ call_log = <<>>
    /\ ResultIdle
    /\ TableIdle

\* Lines 825-877, called as line 785 calls it (base_domain of the seed).
ShouldCrawlLink ==
    /\ policy_pc = "called"
    /\ should_crawl' = _should_crawl_link(policy_link, policy_include,
                                          policy_exclude, Netloc(Seed))
    /\ policy_pc' = "returned"
    /\ UNCHANGED <<crawl_vars, policy_link, policy_include, policy_exclude>>
    /\ UNCHANGED <<split_vars, index_vars, reuse_vars, result_vars>>
    /\ UNCHANGED table_vars

PolicyNext == ShouldCrawlLink

PolicySpec == PolicyInit /\ [][PolicyNext]_vars

\* -------------------------------------------- _split_content_into_chunks
\* A string is the sequence of its characters.
Alphabet == {"x", ".", " ", "\n"}

Whitespace == {" ", "\n"}

Contents == UNION {[1..n -> Alphabet] : n \in 0..MaxContentLen}

\* str.strip()
RECURSIVE LStrip(_)
LStrip(s) ==
    IF s # <<>> /\ Head(s) \in Whitespace THEN LStrip(Tail(s)) ELSE s

RECURSIVE RStrip(_)
RStrip(s) ==
    IF s # <<>> /\ s[Len(s)] \in Whitespace
    THEN RStrip(SubSeq(s, 1, Len(s) - 1)) ELSE s

Strip(s) == RStrip(LStrip(s))

\* How Python reads a slice bound i on a string of n characters: a negative
\* bound counts from the end, and the bound is clipped to 0..n.
SliceIndex(i, n) ==
    IF i < 0 THEN (IF i + n < 0 THEN 0 ELSE i + n)
    ELSE IF i > n THEN n ELSE i

\* s[lo:hi]
Slice(s, lo, hi) ==
    SubSeq(s, SliceIndex(lo, Len(s)) + 1, SliceIndex(hi, Len(s)))

\* The 0-based indices at which sub occurs wholly inside s[lo:hi].
Occurrences(s, sub, lo, hi) ==
    {i \in SliceIndex(lo, Len(s))..(SliceIndex(hi, Len(s)) - Len(sub)) :
        SubSeq(s, i + 1, i + Len(sub)) = sub}

\* s.rfind(sub, lo, hi)
RFind(s, sub, lo, hi) ==
    LET hits == Occurrences(s, sub, lo, hi)
    IN IF hits = {} THEN -1
       ELSE CHOOSE i \in hits : \A j \in hits : j <= i

\* Line 397: the break strings in the order the loop tries them.
BreakChars == << <<".", " ">>, <<"\n", "\n">>, <<"\n">> >>

\* Lines 397-402: the first break string that rfind places after the window
\* start moves end behind its last occurrence; with none, end stays.
RECURSIVE BreakEnd(_, _, _, _)
BreakEnd(s, lo, hi, k) ==
    IF k > Len(BreakChars) THEN hi
    ELSE LET break_pos == RFind(s, BreakChars[k], lo, hi)
         IN IF break_pos > lo THEN break_pos + Len(BreakChars[k])
            ELSE BreakEnd(s, lo, hi, k + 1)

\* Lines 393-402: the end of the window that starts at lo.
WindowEnd(s, lo, size) ==
    IF lo + size < Len(s) THEN BreakEnd(s, lo, lo + size, 1) ELSE lo + size

\* Line 57 and lines 60-92: crawled_documents is created once per call of
\* crawl_and_index_with_context7 and filled over all its urls, so a split
\* finds in it the documents of the urls before: none for the first url, here
\* one for a later url.
EarlierDocuments ==
    {<<>>, <<[content |-> <<"x", ".">>, chunk_index |-> 0]>>}

\* The arguments of a call: chunk_size > overlap >= 0.
SplitInit ==
    /\ settings = DeploymentSettings
    /\ visited_urls = {}
    /\ NoCrawl
    /\ PolicyIdle
    /\ IndexIdle
    /\ call_log = <<>>
    /\ ResultIdle
    /\ TableIdle
    /\ split_pc = "called"
    /\ content \in Contents
    /\ chunk_size \in 1..MaxChunkSize
    /\ overlap \in 0..(chunk_size - 1)
    /\ start = 0
    /\ end = 0
    /\ chunks = <<>>
    /\ windows = {}
    /\ crawled_documents \in EarlierDocuments

\* Lines 386-391: a content of at most chunk_size characters is returned as
\* the only chunk; any other enters the loop at start = 0.
SplitEnter ==
    /\ split_pc = "called"
    /\ IF Len(content) <= chunk_size
       THEN /\ chunks' = <<content>>
            /\ split_pc' = "returned"
       ELSE /\ chunks' = <<>>
            /\ split_pc' = "loop"
    /\ start' = 0
    /\ UNCHANGED <<content, chunk_size, overlap, end, windows,
                   crawled_documents>>
    /\ UNCHANGED <<crawl_vars, policy_vars, index_vars, reuse_vars, result_vars>>
    /\ UNCHANGED table_vars

\* Lines 392-410: one iteration of the while loop.
SplitIterate ==
    /\ split_pc = "loop"
    /\ start < Len(content)
    /\ Len(chunks) < MaxChunks
    /\ LET e == WindowEnd(content, start, chunk_size)
           chunk == Strip(Slice(content, start, e))
       IN /\ end' = e
          /\ chunks' = IF chunk # <<>> THEN Append(chunks, chunk) ELSE chunks
          /\ windows' = windows \cup
                 {[lo |-> start, hi |-> e, emitted |-> chunk # <<>>]}
          /\ start' = e - overlap
          /\ split_pc' = IF e - overlap >= Len(content)
                         THEN "returned" ELSE "loop"
    /\ UNCHANGED <<content, chunk_size, overlap, crawled_documents>>
    /\ UNCHANGED <<crawl_vars, policy_vars, index_vars, reuse_vars, result_vars>>
    /\ UNCHANGED table_vars

\* enhanced_rag.py lines 75-92: one document per chunk, in order, is
\* appended to crawled_documents, which vector_db.add_documents is given
\* after the last url.
BuildDocuments ==
    /\ split_pc = "returned"
    /\ crawled_documents' = crawled_documents \o
            [i \in 1..Len(chunks) |->
                [content |-> chunks[i], chunk_index |-> i - 1]]
    /\ split_pc' = "prepared"
    /\ UNCHANGED <<content, chunk_size, overlap, start, end, chunks, windows>>
    /\ UNCHANGED <<crawl_vars, policy_vars, index_vars, reuse_vars, result_vars>>
    /\ UNCHANGED table_vars

SplitNext == SplitEnter \/ SplitIterate \/ BuildDocuments

SplitSpec == SplitInit /\ [][SplitNext]_vars

\* ------------------------------------------------ crawl_and_index_website
\* A text is the sequence of the pieces the text splitter cuts it into: ""
\* is the empty sequence, " " a single whitespace piece. The text and the
\* markdown rendering _extract_comprehensive_content makes of a page: a page
\* of one piece that the renderer leaves empty, and a page of two pieces
\* with a rendering.
Renderings ==
    {[text |-> <<"p1">>, markdown |-> <<>>],
     [text |-> <<"p1", "p2">>, markdown |-> <<"# p1">>]}

\* One entry of a list of _extract_structured_markdown: its markdown and the
\* number of characters of it.
Element(markdown, length) == [markdown |-> markdown, length |-> length]

\* One entry of the lists list: its tag name and the texts of its items
\* besides. _convert_list_to_markdown ends every rendering with a newline.
ListElement(markdown, length, type, items) ==
    [markdown |-> markdown, length |-> length, type |-> type, items |-> items]

\* The dict _extract_structured_markdown returns for a page without any
\* structured element: these seven keys and no other.
NoElements ==
    [headings |-> <<>>, lists |-> <<>>, code_blocks |-> <<>>, tables |-> <<>>,
     paragraphs |-> <<>>, links |-> <<>>, images |-> <<>>]

\* The structured dicts of the pages: no element, one heading, two
\* headings, a heading and a table, paragraphs of 49, 50 and 51 characters
\* (the extractor keeps paragraphs of more than 20), one element of each
\* type.
StructuredContents ==
    {NoElements,
     [NoElements EXCEPT !.headings = <<Element("# a", 3)>>],
     [NoElements EXCEPT !.headings = <<Element("# a", 3), Element("# b", 3)>>],
     [NoElements EXCEPT !.headings = <<Element("# a", 3)>>,
                        !.tables = <<Element("| t |", 5)>>],
     [NoElements EXCEPT !.paragraphs = <<Element("q49", 49), Element("q50", 50),
                                         Element("q51", 51)>>],
     [NoElements EXCEPT !.headings = <<Element("# a", 3)>>,
                        !.code_blocks = <<Element("~~~c~~~", 7)>>,
                        !.tables = <<Element("| t |", 5)>>,
                        !.lists = <<ListElement("- i\n", 4, "ul", <<"i">>)>>,
                        !.paragraphs = <<Element("q51", 51)>>]}

\* What _extract_comprehensive_content returns for a page.
ContentData(text, markdown, structured) ==
    [text |-> text, markdown |-> markdown, structured |-> structured]

\* A successful page result as crawl_url_fallback builds it from the
\* extractor's content_data (lines 190-212): content is its text,
\* structured_content its structured dict; its markdown is put under no key.
\* The field extracted is history: the content_data the page was built from.
CrawledPage(url, content_data) ==
    [success |-> TRUE, url |-> url, content |-> content_data.text,
     structured_content |-> content_data.structured,
     extracted |-> content_data]

\* The rendering a page with structured elements comes with: the renderer
\* works on the children of the main element, the structured extractor on
\* the whole document, so either can be empty while the other is not. The
\* pages with a table are taken with a rendering, the others without.
RenderingOf(structured) ==
    CHOOSE r \in Renderings : (r.markdown # <<>>) <=> (structured.tables # <<>>)

\* The pages a fetch of url can yield: without text, with whitespace only,
\* with text and no structured element, rendered or not, and with text and
\* structured elements.
PagesAt(url) ==
    {CrawledPage(url, ContentData(text, <<>>, NoElements)) :
        text \in {<<>>, <<" ">>}}
        \cup {CrawledPage(url, ContentData(r.text, r.markdown, NoElements)) :
                r \in Renderings}
        \cup {CrawledPage(url, ContentData(RenderingOf(structured).text,
                                           RenderingOf(structured).markdown,
                                           structured)) :
                structured \in StructuredContents \ {NoElements}}

\* The k-th page of a crawl's result.
CrawlOrder(k) == IF k = 1 THEN Seed ELSE IF k = 2 THEN PageA ELSE PageB

CrawlResultLists ==
    UNION {{[k \in 1..n |-> [body[k] EXCEPT !.url = CrawlOrder(k)]] :
                body \in [1..n -> PagesAt(Seed)]} : n \in 0..MaxCrawled}

\* Python's truth value of a str.
Truthy(text) == text # <<>>

\* not text.strip()
Blank(text) == \A k \in 1..Len(text) : text[k] \in Whitespace

\* self.text_splitter.split_text(text): the pieces, whitespace dropped.
RECURSIVE split_text(_)
split_text(text) ==
    IF text = <<>> THEN <<>>
    ELSE IF Head(text) \in Whitespace THEN split_text(Tail(text))
         ELSE <<Head(text)>> \o split_text(Tail(text))

\* One entry of the collection.
Stored(url, content_type, chunk_index, text) ==
    [source_url |-> url, content_type |-> content_type,
     chunk_index |-> chunk_index, text |-> text]

\* dict.get(key, default)
Get(dict, key, default) == IF key \in DOMAIN dict THEN dict[key] ELSE default

\* "\n".join of the bulleted items (line 471); "* " stands for the bullet
\* character U+2022 and the blank after it.
RECURSIVE BulletLines(_)
BulletLines(items) ==
    IF items = <<>> THEN ""
    ELSE "* " \o Head(items)
            \o (IF Tail(items) = <<>> THEN "" ELSE "\n" \o BulletLines(Tail(items)))

\* Lines 468-471: the text of a list is its markdown, or, when that is
\* empty, a plain rendering of its type and items, which is never empty.
list_text(list_data) ==
    IF list_data.markdown # "" THEN list_data.markdown
    ELSE "List (" \o list_data.type \o "):\n" \o BulletLines(list_data.items)

ListTexts(lists) ==
    [k \in 1..Len(lists) |-> [lists[k] EXCEPT !.markdown = list_text(lists[k])]]

\* The entries of one list of the structured dict that are added, with the
\* content type they are added under.
RECURSIVE Typed(_, _)
Typed(content_type, elements) ==
    IF elements = <<>> THEN <<>>
    ELSE (IF Head(elements).markdown # ""
          THEN <<[content_type |-> content_type,
                  text |-> Head(elements).markdown]>>
          ELSE <<>>) \o Typed(content_type, Tail(elements))

\* Line 507: len(paragraph_text) > 50.
RECURSIVE MeaningfulParagraphs(_)
MeaningfulParagraphs(paragraphs) ==
    IF paragraphs = <<>> THEN <<>>
    ELSE (IF Head(paragraphs).length > 50 THEN <<Head(paragraphs)>> ELSE <<>>)
         \o MeaningfulParagraphs(Tail(paragraphs))

\* The documents _index_structured_content adds, in the order of its loops:
\* headings, code blocks, tables, lists, paragraphs.
Emitted(structured_content) ==
    Typed("heading", structured_content.headings)
        \o Typed("code_block", structured_content.code_blocks)
        \o Typed("table", structured_content.tables)
        \o Typed("list", ListTexts(structured_content.lists))
        \o Typed("paragraph",
                 MeaningfulParagraphs(structured_content.paragraphs))

\* rag_system.py lines 361-540. Each element is added by a collection.add of
\* its own, with chunk_index 0. When the add numbered struct_fail raises,
\* the adds made before it stay in the collection and the except clause
\* runs; its first statement (line 539) uses the name logger, which
\* rag_system.py never binds, so the clause raises NameError and line 540 is
\* not reached.
_index_structured_content(page, coll, struct_fail) ==
    LET elements == Emitted(page.structured_content)
        n == Len(elements)
        made == IF struct_fail \in 1..n THEN struct_fail - 1 ELSE n
        added == [k \in 1..made |->
                    Stored(page.url, elements[k].content_type, 0,
                           elements[k].text)]
    IN [chunks |-> IF struct_fail \in 1..n THEN <<>> ELSE added,
        collection |-> coll \o added,
        rejected |-> IF struct_fail \in 1..n THEN 1 ELSE 0,
        raised |-> struct_fail \in 1..n]

IndexFailed(error) == [success |-> FALSE, error |-> error, chunk_count |-> 0]

IndexSucceeded(n) == [success |-> TRUE, error |-> "", chunk_count |-> n]

\* Mutation of OnIndexError: the exception leaves _index_text_content.
OnIndexErrorReraise(coll, rejected) ==
    [result |-> IndexFailed("Error indexing content"), collection |-> coll,
     rejected |-> rejected, raised |-> TRUE]

\* Lines 343-347: any exception becomes a failed result.
OnIndexError(coll, rejected) ==
    [result |-> IndexFailed("Error indexing content"), collection |-> coll,
     rejected |-> rejected, raised |-> FALSE]

\* Lines 258-347. main_fail says that the collection.add of line 309 raises.
_index_text_content(page, coll, struct_fail, main_fail) ==
    IF ~Truthy(page.content) \/ Blank(page.content)
    THEN [result |-> IndexFailed("No content provided"), collection |-> coll,
          rejected |-> 0, raised |-> FALSE]
    ELSE LET markdown_content == Get(page.structured_content, "markdown", <<>>)
             documents == split_text(page.content)
             markdown_documents == split_text(markdown_content)
             final_documents == IF markdown_documents # <<>>
                                THEN markdown_documents ELSE documents
             structured == _index_structured_content(page, coll, struct_fail)
         IN IF structured.raised
            THEN OnIndexError(structured.collection, structured.rejected)
            ELSE IF final_documents = <<>> /\ structured.chunks = <<>>
            THEN [result |-> IndexFailed("No document chunks created"),
                  collection |-> structured.collection,
                  rejected |-> structured.rejected, raised |-> FALSE]
            ELSE IF final_documents # <<>> /\ main_fail
            THEN OnIndexError(structured.collection, structured.rejected + 1)
            ELSE [result |-> IndexSucceeded(Len(final_documents)
                                            + Len(structured.chunks)),
                  collection |-> structured.collection \o
                        [i \in 1..Len(final_documents) |->
                            Stored(page.url, "main_content", i - 1,
                                   final_documents[i])],
                  rejected |-> structured.rejected, raised |-> FALSE]

\* The dicts crawl_and_index_website returns.
JobError(error) ==
    [success |-> FALSE, keys |-> {"success", "error"}, error |-> error,
     pages_indexed |-> 0, total_chunks |-> 0, indexed_pages |-> <<>>]

Report(pages, total) ==
    [success |-> TRUE,
     keys |-> {"success", "message", "pages_indexed", "total_chunks",
               "indexed_pages", "start_url"},
     error |-> "", pages_indexed |-> Len(pages), total_chunks |-> total,
     indexed_pages |-> pages]

\* crawl_and_index_website has been called on an empty collection.
IndexInit ==
    /\ settings = DeploymentSettings
    /\ visited_urls = {}
    /\ NoCrawl
    /\ PolicyIdle
    /\ SplitIdle
    /\ call_log = <<>>
    /\ ResultIdle
    /\ TableIdle
    /\ index_pc = "called"
    /\ crawl_results = <<>>
    /\ page_no = 0
    /\ indexed_pages = <<>>
    /\ total_chunks = 0
    /\ collection = <<>>
    /\ index_result = [success |-> FALSE, keys |-> {}]
    /\ page_log = <<>>

\* Lines 188-210: the crawl raises (the outer except clause answers), or it
\* returns its pages; without pages the call ends with an error dict.
CrawlSite ==
    /\ index_pc = "called"
    /\ \/ /\ index_result' = JobError("Error crawling website")
          /\ index_pc' = "returned"
          /\ UNCHANGED <<crawl_results, page_no>>
       \/ \E pages \in CrawlResultLists :
            /\ crawl_results' = pages
            /\ IF pages = <<>>
               THEN /\ index_result' = JobError("No pages were crawled")
                    /\ index_pc' = "returned"
                    /\ UNCHANGED page_no
               ELSE /\ index_pc' = "loop"
                    /\ page_no' = 1
                    /\ UNCHANGED index_result
    /\ UNCHANGED <<indexed_pages, total_chunks, collection, page_log>>
    /\ UNCHANGED <<crawl_vars, policy_vars, split_vars, reuse_vars, result_vars>>
    /\ UNCHANGED table_vars

\* Lines 212-228: one pass of the loop over crawl_results. A page with
\* content is indexed, the sink accepting or rejecting each add; a page
\* without content is passed over.
IndexPage ==
    /\ index_pc = "loop"
    /\ page_no <= Len(crawl_results)
    /\ LET page == crawl_results[page_no] IN
        IF page.success /\ Truthy(page.content)
        THEN \E struct_fail \in 0..Len(Emitted(page.structured_content)),
                main_fail \in BOOLEAN :
            LET r == _index_text_content(page, collection, struct_fail,
                                         main_fail)
                entry == [url |-> page.url, success |-> r.result.success,
                          chunks |-> r.result.chunk_count,
                          rejected |-> r.rejected,
                          added |-> Len(r.collection) - Len(collection),
                          stored |-> SubSeq(r.collection, Len(collection) + 1,
                                            Len(r.collection))]
            IN /\ collection' = r.collection
               /\ page_log' = Append(page_log, entry)
               /\ IF r.raised
                  THEN /\ index_result' = JobError("Error crawling website")
                       /\ index_pc' = "returned"
                       /\ UNCHANGED <<page_no, indexed_pages, total_chunks>>
                  ELSE /\ page_no' = page_no + 1
                       /\ indexed_pages' =
                            IF r.result.success
                            THEN Append(indexed_pages,
                                        [url |-> page.url,
                                         chunks |-> r.result.chunk_count])
                            ELSE indexed_pages
                       /\ total_chunks' = total_chunks + r.result.chunk_count
                       /\ UNCHANGED <<index_pc, index_result>>
        ELSE /\ page_no' = page_no + 1
             /\ page_log' = Append(page_log,
                    [url |-> page.url, success |-> FALSE, chunks |-> 0,
                     rejected |-> 0, added |-> 0, stored |-> <<>>])
             /\ UNCHANGED <<index_pc, indexed_pages, total_chunks, collection,
                            index_result>>
    /\ UNCHANGED crawl_results
    /\ UNCHANGED <<crawl_vars, policy_vars, split_vars, reuse_vars, result_vars>>
    /\ UNCHANGED table_vars

\* Lines 230-237: the loop is over, the report is returned.
ReturnReport ==
    /\ index_pc = "loop"
    /\ page_no > Len(crawl_results)
    /\ index_result' = Report(indexed_pages, total_chunks)
    /\ index_pc' = "returned"
    /\ UNCHANGED <<crawl_results, page_no, indexed_pages, total_chunks,
                   collection, page_log>>
    /\ UNCHANGED <<crawl_vars, policy_vars, split_vars, reuse_vars, result_vars>>
    /\ UNCHANGED table_vars

\* The other public functions of the RAGSystem that change self.collection.
\* main.py serves every request from one RAGSystem on one event loop, so
\* another request runs while crawl_and_index_website waits for its crawl
\* (the only await of the call that yields, line 196) or after it returned;
\* the loop over crawl_results is not interrupted.
OtherRequestMayRun == index_pc \in {"called", "returned"}

\* The texts crawl_and_index_url extracts from a page.
UrlTexts == {<<>>, <<" ">>, <<"p2">>}

\* An entry crawl_and_index_url adds: its metadata has no content_type.
StoredByUrl(url, chunk_index, text) ==
    [source_url |-> url, chunk_index |-> chunk_index, text |-> text]

\* The entries of the collection that crawl_and_index_url added.
ByUrl(coll) ==
    LET NoType(e) == "content_type" \notin DOMAIN e
    IN SelectSeq(coll, NoType)

\* Lines 41-175, crawl_and_index_url(url): the chunks of the extracted text
\* are added by one collection.add; without text, without chunks, or when
\* the fetch or the add raises, the collection stays as it is.
CrawlAndIndexUrl(url) ==
    /\ OtherRequestMayRun
    /\ \E text \in UrlTexts, raises \in BOOLEAN :
        LET documents == split_text(text)
        IN /\ Len(ByUrl(collection)) + Len(documents) <= MaxUrlChunks
           /\ collection' =
                IF raises \/ ~Truthy(text) \/ Blank(text) \/ documents = <<>>
                THEN collection
                ELSE collection \o
                        [i \in 1..Len(documents) |->
                            StoredByUrl(url, i - 1, documents[i])]
    /\ UNCHANGED <<index_pc, crawl_results, page_no, indexed_pages,
                   total_chunks, index_result, page_log>>
    /\ UNCHANGED <<crawl_vars, policy_vars, split_vars, reuse_vars, result_vars>>
    /\ UNCHANGED table_vars

\* Lines 616-652, delete_documents_by_source(source_url): every entry of
\* that source is deleted.
DeleteDocumentsBySource(source_url) ==
    /\ OtherRequestMayRun
    /\ LET Other(e) == e.source_url # source_url
       IN collection' = SelectSeq(collection, Other)
    /\ UNCHANGED <<index_pc, crawl_results, page_no, indexed_pages,
                   total_chunks, index_result, page_log>>
    /\ UNCHANGED <<crawl_vars, policy_vars, split_vars, reuse_vars, result_vars>>
    /\ UNCHANGED table_vars

\* Lines 654-682, clear_all_documents: the collection is deleted and
\* created anew.
ClearAllDocuments ==
    /\ OtherRequestMayRun
    /\ collection' = <<>>
    /\ UNCHANGED <<index_pc, crawl_results, page_no, indexed_pages,
                   total_chunks, index_result, page_log>>
    /\ UNCHANGED <<crawl_vars, policy_vars, split_vars, reuse_vars, result_vars>>
    /\ UNCHANGED table_vars

IndexNext ==
    \/ CrawlSite
    \/ IndexPage
    \/ ReturnReport
    \/ CrawlAndIndexUrl(PageB)
    \/ DeleteDocumentsBySource(Seed)
    \/ ClearAllDocuments

IndexSpec == IndexInit /\ [][IndexNext]_vars

\* ------------------------------------------- one WebCrawler, several calls
\* A WebCrawler as __init__ leaves it, in a deployment with default settings.
ReuseInit ==
    /\ settings = DeploymentSettings
    /\ visited_urls = {}
    /\ NoCrawl
    /\ PolicyIdle
    /\ SplitIdle
    /\ IndexIdle
    /\ call_log = <<>>
    /\ ResultIdle
    /\ TableIdle

\* Lines 806-814, called directly while no crawl_website_recursive runs: a
\* visited URL is answered with the skip result at once; any other is marked
\* visited and the call waits for its fetch (the awaits of lines 818, 823).
CrawlSingleUrl(url) ==
    /\ pc \in {"idle", "returned"}
    /\ Len(call_log) < MaxCalls
    /\ IF AlreadyVisited(url)
       THEN /\ call_log' = Append(call_log, [url |-> url, kind |-> "skipped"])
            /\ UNCHANGED visited_urls
       ELSE /\ visited_urls' = visited_urls \cup {url}
            /\ call_log' = Append(call_log, [url |-> url, kind |-> "pending"])
    /\ UNCHANGED <<settings, pc, max_pages, max_depth, crawl_queue,
                   crawled_pages, current_depth, current_batch, semaphore,
                   task_pc, results, queue_depth, batch_depth, fetch_log,
                   inflight, rounds, outcomes, args>>
    /\ UNCHANGED <<policy_vars, split_vars, index_vars, result_vars>>
    /\ UNCHANGED table_vars

\* Lines 816-823: the fetch of the k-th direct call comes back, with a
\* page, a failed result or an exception.
SingleUrlReturns(k) ==
    /\ call_log[k].kind = "pending"
    /\ \E outcome \in FetchOutcomes(call_log[k].url) :
        call_log' = [call_log EXCEPT ![k].kind =
                        IF outcome.kind = "exception" THEN "raised"
                        ELSE IF outcome.success THEN "ok" ELSE "failed"]
    /\ UNCHANGED crawl_vars
    /\ UNCHANGED <<policy_vars, split_vars, index_vars, result_vars>>
    /\ UNCHANGED table_vars

\* Direct calls before and after one crawl_website_recursive that may leave
\* links in the queue (one page, one or two levels).
ReuseNext ==
    \/ \E url \in {Seed, PageA} : CrawlSingleUrl(url)
    \/ \E k \in 1..Len(call_log) : SingleUrlReturns(k)
    \/ \E md \in {Some(1), Some(2)} : Invoke(Seed, Some(1), md)
    \/ StartRound
    \/ Return
    \/ \E i \in 1..Len(task_pc) : Acquire(i)
    \/ \E i \in 1..Len(task_pc) : BeginFetch(i)
    \/ \E i \in 1..Len(task_pc) : FinishFetch(i)
    \/ Merge

ReuseSpec == ReuseInit /\ [][ReuseNext]_vars

\* ------------------------------------------------- the page-result producers
\* Texts a page can carry, as sequences of tokens; the empty one is "".
Body == <<"body">>

\* What mcp_client.call_tool can do: raise, or return a value that is a dict
\* with some of the keys the code looks for, or not a dict.
ExaReplies ==
    {[kind |-> "raises", message |-> <<"timeout">>],
     [kind |-> "raises", message |-> <<>>],
     [kind |-> "value", isdict |-> TRUE, value |-> [content |-> Body]],
     [kind |-> "value", isdict |-> TRUE, value |-> [content |-> <<>>]],
     [kind |-> "value", isdict |-> TRUE, value |-> [text |-> Body]],
     [kind |-> "value", isdict |-> TRUE,
      value |-> [results |-> <<[content |-> Body], [title |-> Body],
                              [text |-> Body]>>]],
     [kind |-> "value", isdict |-> TRUE, value |-> [status |-> Body]],
     [kind |-> "value", isdict |-> TRUE,
      value |-> [content |-> Body, links |-> <<PageA>>]],
     [kind |-> "value", isdict |-> TRUE,
      value |-> [results |-> <<[content |-> Body,
                                links |-> <<PageA, PageB>>]>>]],
     [kind |-> "value", isdict |-> FALSE, value |-> Body]}

\* What session.get can do: raise, or answer with a status and a document
\* whose extracted text is `text`.
HttpReplies ==
    {[kind |-> "raises", message |-> <<"refused">>],
     [kind |-> "raises", message |-> <<>>],
     [kind |-> "response", status |-> 200, title |-> Body, text |-> Body],
     [kind |-> "response", status |-> 200, title |-> <<>>, text |-> <<>>],
     [kind |-> "response", status |-> 404, title |-> Body, text |-> Body],
     [kind |-> "response", status |-> 500, title |-> <<>>, text |-> <<>>]}

\* "\n\n".join(content_parts)
RECURSIVE JoinParts(_)
JoinParts(parts) ==
    IF parts = <<>> THEN <<>>
    ELSE IF Len(parts) = 1 THEN parts[1]
    ELSE parts[1] \o <<"\n\n">> \o JoinParts(Tail(parts))

\* The texts of the items of result["results"] that have a content or a text.
RECURSIVE ContentParts(_)
ContentParts(items) ==
    IF items = <<>> THEN <<>>
    ELSE LET item == items[1]
             part == IF "content" \in DOMAIN item THEN <<item.content>>
                     ELSE IF "text" \in DOMAIN item THEN <<item.text>>
                     ELSE <<>>
         IN part \o ContentParts(Tail(items))

\* The text crawl_url_with_exa takes out of the tool's result.
ExaContent(reply) ==
    IF ~reply.isdict THEN <<>>
    ELSE LET result == reply.value
         IN IF "content" \in DOMAIN result THEN result.content
            ELSE IF "text" \in DOMAIN result THEN result.text
            ELSE IF "results" \in DOMAIN result
                 THEN JoinParts(ContentParts(result.results))
            ELSE <<>>

\* The links of the items of result["results"] that have some, in order.
RECURSIVE ItemLinks(_)
ItemLinks(items) ==
    IF items = <<>> THEN <<>>
    ELSE (IF "links" \in DOMAIN items[1] THEN items[1].links ELSE <<>>)
         \o ItemLinks(Tail(items))

\* Lines 107-114: the links crawl_url_with_exa takes out of the tool's
\* result when it was asked for them.
ExaLinks(reply, extract_links) ==
    IF ~reply.isdict \/ ~extract_links THEN <<>>
    ELSE LET result == reply.value
         IN IF "links" \in DOMAIN result THEN result.links
            ELSE IF "results" \in DOMAIN result THEN ItemLinks(result.results)
            ELSE <<>>

\* The dict crawl_url_with_exa returns once the client exists.
crawl_url_with_exa(url, extract_links, reply) ==
    IF reply.kind = "raises"
    THEN [success |-> FALSE, url |-> url, error |-> reply.message,
          method |-> "exa_mcp"]
    ELSE [success |-> TRUE, url |-> url, content |-> ExaContent(reply),
          links |-> ExaLinks(reply, extract_links), crawled_at |-> "now",
          method |-> "exa_mcp"]

\* The HTTP-status branch with the page text kept in the failed result.
FallbackKeepsText(url, reply) ==
    IF reply.kind = "raises"
    THEN [success |-> FALSE, url |-> url, error |-> reply.message,
          method |-> "fallback"]
    ELSE IF reply.status # 200
    THEN [success |-> FALSE, url |-> url, error |-> <<"HTTP", reply.status>>,
          content |-> reply.text, method |-> "fallback"]
    ELSE [success |-> TRUE, url |-> url, title |-> reply.title,
          description |-> <<>>, headings |-> <<>>, content |-> reply.text,
          structured_content |-> NoElements, links |-> <<>>, images |-> <<>>,
          tables |-> <<>>, code_blocks |-> <<>>,
          content_length |-> Len(reply.text), metadata |-> <<>>,
          crawled_at |-> "now", method |-> "fallback"]

\* The dict crawl_url_fallback returns.
crawl_url_fallback(url, reply) ==
    IF reply.kind = "raises"
    THEN [success |-> FALSE, url |-> url, error |-> reply.message,
          method |-> "fallback"]
    ELSE IF reply.status # 200
    THEN [success |-> FALSE, url |-> url, error |-> <<"HTTP", reply.status>>,
          method |-> "fallback"]
    ELSE [success |-> TRUE, url |-> url, title |-> reply.title,
          description |-> <<>>, headings |-> <<>>, content |-> reply.text,
          structured_content |-> NoElements, links |-> <<>>, images |-> <<>>,
          tables |-> <<>>, code_blocks |-> <<>>,
          content_length |-> Len(reply.text), metadata |-> <<>>,
          crawled_at |-> "now", method |-> "fallback"]

\* Lines 807-812: the dict crawl_single_url answers a visited url with.
SkipResult(url) ==
    [success |-> FALSE, url |-> url, error |-> <<"Already visited">>,
     method |-> "skip"]

\* A crawler some of whose urls are visited, about to produce one result.
ResultInit ==
    /\ settings = DeploymentSettings
    /\ visited_urls \in SUBSET {Seed, PageA}
    /\ NoCrawl
    /\ PolicyIdle
    /\ SplitIdle
    /\ IndexIdle
    /\ call_log = <<>>
    /\ result_pc = "ready"
    /\ result_url \in {Seed, PageA}
    /\ mcp_client \in BOOLEAN
    /\ use_mcp \in BOOLEAN
    /\ exa_reply \in ExaReplies
    /\ http_reply \in HttpReplies
    /\ producer = ""
    /\ page_result = [keys |-> {}]
    /\ TableIdle

\* crawl_url_with_exa(result_url), extract_links left at its default False:
\* raises when there is no client.
CallExa ==
    /\ result_pc = "ready"
    /\ producer' = "crawl_url_with_exa"
    /\ IF ~mcp_client
       THEN /\ result_pc' = "raised"
            /\ page_result' = page_result
       ELSE /\ result_pc' = "returned"
            /\ page_result' = crawl_url_with_exa(result_url, FALSE, exa_reply)
    /\ UNCHANGED <<result_url, mcp_client, use_mcp, exa_reply, http_reply>>
    /\ UNCHANGED <<crawl_vars, policy_vars, split_vars, index_vars, reuse_vars>>
    /\ UNCHANGED table_vars

\* crawl_url_fallback(result_url)
CallFallback ==
    /\ result_pc = "ready"
    /\ producer' = "crawl_url_fallback"
    /\ result_pc' = "returned"
    /\ page_result' = crawl_url_fallback(result_url, http_reply)
    /\ UNCHANGED <<result_url, mcp_client, use_mcp, exa_reply, http_reply>>
    /\ UNCHANGED <<crawl_vars, policy_vars, split_vars, index_vars, reuse_vars>>
    /\ UNCHANGED table_vars

\* crawl_single_url(result_url), lines 806-818 up to its first await: a
\* visited url is answered at once; any other is marked visited and the call
\* waits for the Exa crawl when a client is configured, else for the
\* fallback.
CallSingleUrl ==
    /\ result_pc = "ready"
    /\ producer' = "crawl_single_url"
    /\ IF result_url \in visited_urls
       THEN /\ result_pc' = "returned"
            /\ page_result' = SkipResult(result_url)
            /\ UNCHANGED visited_urls
       ELSE /\ visited_urls' = visited_urls \cup {result_url}
            /\ result_pc' = IF mcp_client /\ use_mcp
                            THEN "await_exa" ELSE "await_fallback"
            /\ UNCHANGED page_result
    /\ UNCHANGED <<result_url, mcp_client, use_mcp, exa_reply, http_reply>>
    /\ UNCHANGED <<settings, pc, max_pages, max_depth, crawl_queue,
                   crawled_pages, current_depth, current_batch, semaphore,
                   task_pc, results, queue_depth, batch_depth, fetch_log,
                   inflight, rounds, outcomes, args>>
    /\ UNCHANGED <<policy_vars, split_vars, index_vars, reuse_vars>>
    /\ UNCHANGED table_vars

\* Lines 818-820: the Exa crawl, asked for the links too, has answered; a
\* successful result is returned, after a failed one the fallback is awaited.
SingleUrlExaDone ==
    /\ result_pc = "await_exa"
    /\ LET result == crawl_url_with_exa(result_url, TRUE, exa_reply)
       IN IF result.success
          THEN /\ result_pc' = "returned"
               /\ page_result' = result
          ELSE /\ result_pc' = "await_fallback"
               /\ UNCHANGED page_result
    /\ UNCHANGED <<result_url, mcp_client, use_mcp, exa_reply, http_reply,
                   producer>>
    /\ UNCHANGED <<crawl_vars, policy_vars, split_vars, index_vars, reuse_vars>>
    /\ UNCHANGED table_vars

\* Line 823: the fallback crawl has answered and its dict is returned.
SingleUrlFallbackDone ==
    /\ result_pc = "await_fallback"
    /\ result_pc' = "returned"
    /\ page_result' = crawl_url_fallback(result_url, http_reply)
    /\ UNCHANGED <<result_url, mcp_client, use_mcp, exa_reply, http_reply,
                   producer>>
    /\ UNCHANGED <<crawl_vars, policy_vars, split_vars, index_vars, reuse_vars>>
    /\ UNCHANGED table_vars

ResultNext ==
    \/ CallExa
    \/ CallFallback
    \/ CallSingleUrl
    \/ SingleUrlExaDone
    \/ SingleUrlFallbackDone

ResultSpec == ResultInit /\ [][ResultNext]_vars

\* ------------------------------------------------ _convert_table_to_markdown
\* The texts a cell can hold in the page source, as characters.
CellTexts == {<<"x">>, <<" ">>, <<".", "\n", "x">>}

\* The <tr> elements a table can have: up to MaxCells <td>/<th> each.
RowElements == UNION {[1..n -> CellTexts] : n \in 0..MaxCells}

\* The table elements: up to MaxRows <tr> each.
TableElements == UNION {[1..n -> RowElements] : n \in 0..MaxRows}

\* td.get_text(strip=True) of a cell that holds one text.
get_text(td) == Strip(td)

\* The rows both functions collect: each <tr>'s cell texts, a <tr> without
\* cells left out.
RECURSIVE ExtractRows(_)
ExtractRows(trs) ==
    IF trs = <<>> THEN <<>>
    ELSE LET cells == [k \in 1..Len(trs[1]) |-> get_text(trs[1][k])]
         IN (IF cells # <<>> THEN <<cells>> ELSE <<>>)
            \o ExtractRows(Tail(trs))

\* sep.join(parts)
RECURSIVE Join(_, _)
Join(sep, parts) ==
    IF parts = <<>> THEN <<>>
    ELSE IF Len(parts) = 1 THEN parts[1]
    ELSE parts[1] \o sep \o Join(sep, Tail(parts))

\* '| ' + ' | '.join(cells) + ' |'
TableLine(cells) ==
    <<"|", " ">> \o Join(<<" ", "|", " ">>, cells) \o <<" ", "|">>

\* while len(row) < len(header): row.append('')
PadRow(row, header) ==
    IF Len(row) < Len(header)
    THEN row \o [k \in 1..(Len(header) - Len(row)) |-> <<>>]
    ELSE row

\* The string _convert_table_to_markdown returns for a table element.
_convert_table_to_markdown(trs) ==
    LET rows == ExtractRows(trs)
    IN IF rows = <<>> THEN <<>>
       ELSE LET header == rows[1]
                separator ==
                    TableLine([k \in 1..Len(header) |-> <<"-", "-", "-">>])
                data == [k \in 1..(Len(rows) - 1) |->
                            TableLine(PadRow(rows[k + 1], header))]
                markdown_parts == <<TableLine(header), separator>> \o data
            IN Join(<<"\n">>, markdown_parts) \o <<"\n">>

\* The list _extract_tables returns for a page with this one table element.
_extract_tables(trs, enabled) ==
    LET rows == ExtractRows(trs)
    IN IF ~enabled \/ rows = <<>> THEN <<>>
       ELSE <<[rows |-> rows, headers |-> rows[1], data_rows |-> Tail(rows)]>>

\* A page with one table element is about to be read.
TableInit ==
    /\ settings = DeploymentSettings
    /\ visited_urls = {}
    /\ NoCrawl
    /\ PolicyIdle
    /\ SplitIdle
    /\ IndexIdle
    /\ call_log = <<>>
    /\ ResultIdle
    /\ table_pc = "ready"
    /\ table_element \in TableElements
    /\ extract_tables \in BOOLEAN
    /\ table_markdown = <<>>
    /\ tables = <<>>

\* _extract_comprehensive_content converts the table.
ConvertTable ==
    /\ table_pc = "ready"
    /\ table_markdown' = _convert_table_to_markdown(table_element)
    /\ table_pc' = "converted"
    /\ UNCHANGED <<table_element, extract_tables, tables>>
    /\ UNCHANGED <<crawl_vars, policy_vars, split_vars, index_vars, reuse_vars,
                   result_vars>>

\* crawl_url_fallback then extracts the page's tables.
ExtractTables ==
    /\ table_pc = "converted"
    /\ tables' = _extract_tables(table_element, extract_tables)
    /\ table_pc' = "extracted"
    /\ UNCHANGED <<table_element, extract_tables, table_markdown>>
    /\ UNCHANGED <<crawl_vars, policy_vars, split_vars, index_vars, reuse_vars,
                   result_vars>>

TableNext == ConvertTable \/ ExtractTables

TableSpec == TableInit /\ [][TableNext]_vars

\* -------------------------------------------- a crawl over pages with content
\* The result["links"] lists of the pages of this crawl.
PageLinkLists == {<<>>, <<PageA>>, <<PageA, PageB>>}

\* What crawl_single_url returns for an unvisited URL when Exa is not
\* configured: the dict of crawl_url_fallback, a fetched page with the links
\* _extract_links found in it.
FallbackOutcomes(url) ==
    {[kind |-> "result", links |-> (IF r.success THEN links ELSE <<>>)] @@ r :
        r \in {crawl_url_fallback(url, reply) : reply \in HttpReplies},
        links \in PageLinkLists}

\* Lines 816-823 with the fallback's dict as the result of the task.
FinishFallback(i) ==
    /\ pc = "gather"
    /\ task_pc[i] = "fetching"
    /\ \E outcome \in FallbackOutcomes(current_batch[i]) :
        /\ results' = [results EXCEPT ![i] = outcome]
        /\ outcomes' = outcomes \cup
                {[url |-> current_batch[i], round |-> current_depth, task |-> i,
                  kind |-> IF outcome.success THEN "ok" ELSE "failed"]}
    /\ task_pc' = [task_pc EXCEPT ![i] = "done"]
    /\ semaphore' = semaphore + 1
    /\ inflight' = inflight \ {[task |-> i, depth |-> batch_depth[i]]}
    /\ UNCHANGED <<settings, pc, max_pages, max_depth, visited_urls,
                   crawl_queue, crawled_pages, current_depth, current_batch,
                   queue_depth, batch_depth, fetch_log, rounds, args>>
    /\ UNCHANGED aux_vars

ContentInit ==
    /\ settings = DeploymentSettings
    /\ visited_urls = {}
    /\ NoCrawl
    /\ PolicyIdle
    /\ SplitIdle
    /\ IndexIdle
    /\ call_log = <<>>
    /\ ResultIdle
    /\ TableIdle

\* One crawl_website_recursive of one or two levels whose pages come from
\* crawl_url_fallback.
ContentNext ==
    \/ \E md \in {Some(1), Some(2)} : Invoke(Seed, Some(MaxPagesArg), md)
    \/ StartRound
    \/ Return
    \/ \E i \in 1..Len(task_pc) : Acquire(i)
    \/ \E i \in 1..Len(task_pc) : BeginFetch(i)
    \/ \E i \in 1..Len(task_pc) : FinishFallback(i)
    \/ Merge

ContentSpec == ContentInit /\ [][ContentNext]_vars

\* ================================================================ claims
Started == pc # "idle"

Holding == {i \in 1..Len(task_pc) : task_pc[i] \in {"sleeping", "fetching"}}

IsPage(r) == r.kind = "result" /\ r.success

\* C1: the list of successful page results of crawl_website_recursive never
\* has more than max_pages entries.
C1_PagesWithinBudget == Started => Len(crawled_pages) <= max_pages

\* C2: over all rounds, crawl_website_recursive starts a fetch for at most
\* max_pages URLs.
C2_FetchesWithinBudget == Started => Len(fetch_log) <= max_pages

\* C3: when every fetch task ends, crawl_website_recursive returns, and it
\* runs at most max_depth + 1 rounds whatever the pages link to.
C3_TerminatesWithinDepth ==
    /\ (pc = "while") ~> (pc = "returned")
    /\ [](Started => rounds <= max_depth + 1)

\* C3 happens: a crawl over pages that link back to the seed has returned
\* after using every round of its depth budget.
C3_Witness ==
    /\ pc = "returned"
    /\ rounds = max_depth
    /\ rounds >= 2
    /\ \E k \in 1..Len(crawled_pages) :
        \E n \in 1..Len(crawled_pages[k].links) :
            crawled_pages[k].links[n] = Seed

\* C4: no URL has two fetch attempts in one crawl, whether the first one
\* succeeded or failed and however often the URL was discovered.
C4_NoDuplicateFetch ==
    \A i, j \in 1..Len(fetch_log) :
        i # j => fetch_log[i].url # fetch_log[j].url

\* C4 happens: a URL is in a batch a second time, or is linked again after
\* its fetch failed, and no second fetch is started for it.
C4_Witness ==
    /\ \E o \in outcomes : o.kind = "skipped"
    /\ \E o \in outcomes :
        /\ o.kind = "failed"
        /\ \E k \in 1..Len(crawled_pages) :
            /\ crawled_pages[k].url # o.url
            /\ \E n \in 1..Len(crawled_pages[k].links) :
                crawled_pages[k].links[n] = o.url
    /\ pc = "returned"

\* C5: while a URL of link level d + 1 is dispatched no fetch of level d is
\* unfinished, and every fetch runs in the round of its own link level.
C5_BreadthFirst ==
    /\ \A f \in inflight : f.depth = current_depth
    /\ pc = "gather" =>
        \A i \in 1..Len(batch_depth) :
            /\ batch_depth[i] = current_depth
            /\ \A f \in inflight : f.depth = batch_depth[i]
    /\ \A k \in 1..Len(fetch_log) : fetch_log[k].depth = fetch_log[k].round
    /\ pc = "gather" => crawl_queue = <<>>
    /\ \A k \in 1..Len(queue_depth) : queue_depth[k] = current_depth

\* C5 happens: a round of link level 1 or deeper has fetches in flight.
C5_Witness ==
    /\ pc = "gather"
    /\ current_depth >= 1
    /\ Cardinality(inflight) >= 2

\* C6: crawl_queue never holds the same URL twice.
C6_QueueHasNoDuplicates ==
    \A i, j \in 1..Len(crawl_queue) :
        i # j => crawl_queue[i] # crawl_queue[j]

\* C7: a task that fails or raises leaves its siblings untouched and gives
\* its semaphore slot back, and when the round is merged every successful
\* sibling is collected and its accepted links are enqueued.
C7_FailureIsolation ==
    [][ /\ \A i \in 1..Len(task_pc) :
            (/\ pc = "gather"
             /\ task_pc[i] = "fetching"
             /\ task_pc'[i] = "done"
             /\ ~IsPage(results'[i]))
            => /\ semaphore' = semaphore + 1
               /\ pc' = "gather"
               /\ \A j \in 1..Len(task_pc) :
                    j # i => task_pc'[j] = task_pc[j] /\ results'[j] = results[j]
        /\ (pc = "gather" /\ pc' = "while")
            => \A i \in 1..Len(results) :
                IsPage(results[i])
                => /\ \E k \in (Len(crawled_pages) + 1)..Len(crawled_pages') :
                        crawled_pages'[k] = results[i]
                   /\ MayEnqueueLinks
                        => \A n \in 1..Len(results[i].links) :
                            LinkAccepted(results[i].links[n])
                            => \E q \in 1..Len(crawl_queue') :
                                crawl_queue'[q] = results[i].links[n]
      ]_vars

\* C7 happens: a round in which an earlier task raised or failed has been
\* merged, the page of a later sibling is collected, and the crawl is in the
\* next round, fetching that sibling's links.
C7_Witness ==
    /\ pc = "gather"
    /\ rounds >= 3
    /\ \E o1, o2 \in outcomes :
        /\ o1.round = 1 /\ o2.round = 1
        /\ o1.kind \in {"raised", "failed"} /\ o2.kind = "ok"
        /\ o1.task < o2.task
        /\ \E k \in 1..Len(crawled_pages) : crawled_pages[k].url = o2.url

\* C8 as stated: the returned list has a result for every URL that was
\* dispatched, also for one whose fetch failed.
C8_ResultPerAttemptedUrl ==
    pc = "returned" =>
        \A e \in 1..Len(fetch_log) :
            \E k \in 1..Len(crawled_pages) :
                crawled_pages[k].url = fetch_log[e].url

\* C8 amended: the returned list holds exactly the successful results, one
\* for every URL whose fetch succeeded and none for a fetch that failed,
\* raised or was skipped.
C8_ResultPerSuccessfulUrl ==
    pc \in {"while", "returned"} =>
        /\ \A k \in 1..Len(crawled_pages) : IsPage(crawled_pages[k])
        /\ \A o \in outcomes :
            Cardinality({k \in 1..Len(crawled_pages) :
                            crawled_pages[k].url = o.url})
                = IF \E o2 \in outcomes : o2.url = o.url /\ o2.kind = "ok"
                  THEN 1 ELSE 0

\* C8 happens: a crawl has returned after one fetch succeeded and another
\* failed.
C8_Witness ==
    /\ pc = "returned"
    /\ \E o1, o2 \in outcomes :
        /\ o1.kind = "ok" /\ o2.kind = "failed"
        /\ o1.round = o2.round
    /\ Len(crawled_pages) >= 2

\* C9: at no moment do more than max_concurrent_requests tasks hold the
\* semaphore, across all rounds.
C9_ConcurrencyBound ==
    /\ Cardinality(Holding) <= settings.max_concurrent_requests
    /\ Cardinality(inflight) <= settings.max_concurrent_requests
    /\ pc = "gather" =>
        semaphore + Cardinality(Holding) = settings.max_concurrent_requests

\* C9 happens: in a later round every slot is taken and a task waits.
C9_Witness ==
    /\ pc = "gather"
    /\ current_depth >= 1
    /\ Cardinality(Holding) = settings.max_concurrent_requests
    /\ \E i \in 1..Len(task_pc) : task_pc[i] = "waiting"

\* C10: every URL that is dispatched was enqueued at a link level of at most
\* max_depth.
C10_DepthWithinBudget ==
    /\ \A k \in 1..Len(fetch_log) : fetch_log[k].depth <= max_depth
    /\ pc = "gather" =>
        \A i \in 1..Len(batch_depth) : batch_depth[i] <= max_depth

\* C10 happens: a crawl has returned with links left in the queue that lie
\* beyond the depth budget, after fetching pages at the last allowed level.
C10_Witness ==
    /\ pc = "returned"
    /\ \E k \in 1..Len(fetch_log) :
        fetch_log[k].depth = max_depth - 1 /\ fetch_log[k].depth >= 1
    /\ \E o \in outcomes :
        /\ o.kind = "ok" /\ o.round = max_depth - 1
        /\ \E k \in 1..Len(crawled_pages) :
            /\ crawled_pages[k].url = o.url
            /\ \E n \in 1..Len(crawled_pages[k].links) :
                LinkAccepted(crawled_pages[k].links[n])

\* C11: with same_domain_only set, every URL put on crawl_queue, and so every
\* URL dispatched or fetched, has the netloc of the seed.
C11_DomainScoping ==
    settings.same_domain_only =>
        /\ \A k \in 1..Len(crawl_queue) : Netloc(crawl_queue[k]) = Netloc(Seed)
        /\ \A k \in 1..Len(current_batch) : Netloc(current_batch[k]) = Netloc(Seed)
        /\ \A k \in 1..Len(fetch_log) : Netloc(fetch_log[k].url) = Netloc(Seed)

\* C11 happens: with same_domain_only set, a collected page links to another
\* host and to a page of the seed's host, and only the latter was enqueued.
C11_Witness ==
    /\ settings.same_domain_only
    /\ pc = "while"
    /\ \E k \in 1..Len(crawled_pages) :
        crawled_pages[k].links = <<PageB, OffDomain>>
    /\ crawl_queue = <<PageB>>

\* C12: for a link that passes the visited and domain checks (it is not
\* visited, urlparse reads it, and its host is the seed's when
\* same_domain_only is set), _should_crawl_link returns false if some exclude pattern occurs in the
\* link, also when an include pattern occurs in it; otherwise, with a
\* non-empty include list, it returns true exactly when some include pattern
\* occurs in the link; otherwise it returns true.
C12_ExcludeThenInclude ==
    (/\ policy_pc = "returned"
     /\ policy_link \notin visited_urls
     /\ ~UrlparseRaises(policy_link)
     /\ settings.same_domain_only => Netloc(policy_link) = Netloc(Seed))
    => LET excluded == \E k \in 1..Len(policy_exclude) :
                            Contains(policy_exclude[k], policy_link)
           included == \E k \in 1..Len(policy_include) :
                            Contains(policy_include[k], policy_link)
       IN /\ excluded => should_crawl = FALSE
          /\ (~excluded /\ policy_include # <<>>) => should_crawl = included
          /\ (~excluded /\ policy_include = <<>>) => should_crawl = TRUE

\* C12 happens: a link that passes the visited and domain checks matches an
\* include pattern and an exclude pattern, and the call has returned.
C12_Witness ==
    /\ policy_pc = "returned"
    /\ policy_link = PdfLink
    /\ PdfLink \notin visited_urls
    /\ settings.same_domain_only
    /\ policy_include # <<>>
    /\ Contains(policy_include[1], policy_link)
    /\ \E k \in 1..Len(policy_exclude) : Contains(policy_exclude[k], policy_link)
    /\ should_crawl = FALSE

\* C13: no chunk returned by _split_content_into_chunks, and no document
\* built from one, is empty or whitespace-only, whatever the content.
C13_NoEmptyChunk ==
    /\ split_pc \in {"returned", "prepared"} =>
        \A k \in 1..Len(chunks) : Strip(chunks[k]) # <<>>
    /\ \A k \in 1..Len(crawled_documents) :
        Strip(crawled_documents[k].content) # <<>>

\* C14: _split_content_into_chunks terminates: from one iteration of its
\* loop to the next the window start strictly increases, the start being
\* forced to end when end - overlap would not advance it.
C14_StartAdvances ==
    [][split_pc = "loop" => start' > start]_vars

\* The break strings in the order of preference C15 states: blank line,
\* single newline, sentence end.
ClaimedPreference == << <<"\n", "\n">>, <<"\n">>, <<".", " ">> >>

\* The end of a window of s from lo to the target hi when the breaks are
\* preferred in the given order: behind the last occurrence, inside the
\* window and after its start, of the first break string that has one; the
\* target itself when none has.
RECURSIVE PreferredEnd(_, _, _, _)
PreferredEnd(s, lo, hi, breaks) ==
    IF breaks = <<>> THEN hi
    ELSE LET hits == {i \in Occurrences(s, Head(breaks), lo, hi) : i > lo}
         IN IF hits # {}
            THEN (CHOOSE i \in hits : \A j \in hits : j <= i) + Len(Head(breaks))
            ELSE PreferredEnd(s, lo, hi, Tail(breaks))

\* C15: in an iteration whose target end lies before the end of the content,
\* the window ends behind the nearest preferred break inside the window, a
\* blank line preferred over a newline and a newline over a sentence end,
\* and at the raw target only when the window has no break.
C15_BreakPreference ==
    [][(/\ split_pc = "loop"
        /\ start >= 0
        /\ start + chunk_size < Len(content))
       => end' = PreferredEnd(content, start, start + chunk_size,
                              ClaimedPreference)]_vars

\* The pages of page_log whose indexing succeeded, as indexed_pages lists
\* them, and the sum of their chunk counts.
RECURSIVE SucceededPages(_)
SucceededPages(log) ==
    IF log = <<>> THEN <<>>
    ELSE IF Head(log).success
         THEN <<[url |-> Head(log).url, chunks |-> Head(log).chunks]>>
                \o SucceededPages(Tail(log))
         ELSE SucceededPages(Tail(log))

RECURSIVE SumChunks(_)
SumChunks(pages) ==
    IF pages = <<>> THEN 0 ELSE Head(pages).chunks + SumChunks(Tail(pages))

\* C16: crawl_and_index_website always returns a structured result, never an
\* exception, whatever happens to single pages; when the crawl returned at
\* least one page the result carries pages_indexed, total_chunks and
\* indexed_pages, and they describe exactly the pages whose indexing
\* succeeded.
C16_AlwaysStructuredResult ==
    index_pc = "returned" =>
        /\ "success" \in index_result.keys
        /\ index_result.success \/ "error" \in index_result.keys
        /\ crawl_results # <<>> =>
            /\ {"pages_indexed", "total_chunks", "indexed_pages"}
                    \subseteq index_result.keys
            /\ index_result.indexed_pages = SucceededPages(page_log)
            /\ index_result.pages_indexed = Len(SucceededPages(page_log))
            /\ index_result.total_chunks = SumChunks(SucceededPages(page_log))

\* C16 happens: of two crawled pages the first was rejected by the sink and
\* the second was indexed, and the report lists the second alone.
C16_Witness ==
    /\ index_pc = "returned"
    /\ Len(page_log) = 2
    /\ page_log[1].rejected > 0 /\ ~page_log[1].success
    /\ page_log[2].success
    /\ index_result.pages_indexed = 1
    /\ index_result.indexed_pages[1].url = PageA

\* The entries the call of crawl_and_index_website has added to the
\* collection, in the order of its adds.
RECURSIVE StoredOf(_)
StoredOf(log) ==
    IF log = <<>> THEN <<>> ELSE Head(log).stored \o StoredOf(Tail(log))

AddedByCall == StoredOf(page_log)

\* C17: when the sink has rejected an add, the result returned reports the
\* error to the caller and names every page that was crawled, and whatever
\* the collection had accepted from the call before is still in it when the
\* call returns.
C17_SinkErrorSurfaced ==
    [][(/\ index_pc = "loop"
        /\ index_pc' = "returned"
        /\ \E k \in 1..Len(page_log) : page_log[k].rejected > 0)
       => /\ "error" \in index_result'.keys
          /\ \A k \in 1..Len(crawl_results) :
                \E j \in 1..Len(index_result'.indexed_pages) :
                    index_result'.indexed_pages[j].url = crawl_results[k].url
          /\ Len(collection') >= Len(AddedByCall)
          /\ SubSeq(collection', Len(collection') - Len(AddedByCall) + 1,
                    Len(collection')) = AddedByCall]_vars

\* C18: no crawl state survives an invocation: crawl_website_recursive
\* starts from an empty visited set and a queue holding the seed alone, and
\* a direct crawl_single_url fetches its URL, never skipping it as already
\* visited by an earlier invocation.
C18_NoStateSurvives ==
    [][/\ (pc = "idle" /\ pc' = "while")
            => visited_urls' = {} /\ crawl_queue' = <<Seed>>
       /\ Len(call_log') > Len(call_log)
            => call_log'[Len(call_log')].kind # "skipped"]_vars

\* C19: every dict returned by crawl_url_with_exa, crawl_url_fallback or
\* crawl_single_url is tagged by success: it has a content exactly when
\* success is true and an error exactly when success is false, so never
\* both and never neither.
C19_TaggedResult ==
    result_pc = "returned"
    => /\ "success" \in DOMAIN page_result
       /\ "content" \in DOMAIN page_result <=> page_result.success
       /\ "error" \in DOMAIN page_result <=> ~page_result.success

\* crawl_single_url fell back after a failed Exa crawl and the fallback
\* succeeded: the result has the fallback's content and no error.
C19_Witness ==
    /\ result_pc = "returned"
    /\ producer = "crawl_single_url"
    /\ mcp_client /\ use_mcp
    /\ exa_reply.kind = "raises"
    /\ page_result.success
    /\ page_result.method = "fallback"
    /\ DOMAIN page_result \cap {"content", "error"} = {"content"}

\* The lines of a text that ends each line with a newline.
RECURSIVE TextLines(_, _)
TextLines(text, line) ==
    IF text = <<>> THEN (IF line = <<>> THEN <<>> ELSE <<line>>)
    ELSE IF text[1] = "\n" THEN <<line>> \o TextLines(Tail(text), <<>>)
    ELSE TextLines(Tail(text), line \o <<text[1]>>)

\* C20: for a table with n >= 1 rows that have cells, _convert_table_to_markdown
\* emits exactly n+1 lines: the first row as header, a separator with one
\* '---' cell per header cell, then the other rows in their order, each
\* padded with empty cells to at least the header's width.
C20_TableStructure ==
    LET rows == ExtractRows(table_element)
        n == Len(rows)
        lines == TextLines(table_markdown, <<>>)
    IN (table_pc # "ready" /\ table_pc # "idle" /\ n >= 1)
       => /\ Len(lines) = n + 1
          /\ lines[1] = TableLine(rows[1])
          /\ lines[2] = TableLine([k \in 1..Len(rows[1]) |-> <<"-", "-", "-">>])
          /\ \A k \in 2..n :
                \E pad \in 0..Len(rows[1]) :
                    /\ Len(rows[k]) + pad >= Len(rows[1])
                    /\ lines[k + 1] =
                          TableLine(rows[k] \o [j \in 1..pad |-> <<>>])

\* C21: during a crawl every URL in crawl_queue is in visited_urls: the seed
\* from initialization on, a discovered link from the step that queues it.
C21_QueuedAreVisited ==
    Started => \A k \in 1..Len(crawl_queue) : crawl_queue[k] \in visited_urls

\* C22: visited_urls and crawl_queue change only between rounds (at
\* initialization, when the batch is taken, in the merge after every task of
\* the round is done), never in a step taken while tasks of the round are
\* still in flight.
C22_SingleWriter ==
    [][(visited_urls' # visited_urls \/ crawl_queue' # crawl_queue)
       => (pc = "idle" \/ pc = "while" \/ (pc = "gather" /\ GatherDone))]_vars

\* The stop condition of a round boundary as it is claimed: the page budget
\* is used up, the next depth would exceed max_depth, or the next batch is
\* empty.
ClaimedStop ==
    \/ Len(crawled_pages) >= max_pages
    \/ current_depth > max_depth
    \/ crawl_queue = <<>>

\* A page fetched in the last round that was run carries a link the link
\* policy accepts: there is a frontier for the next depth.
FrontierLeft ==
    \E o \in outcomes :
        /\ o.kind = "ok" /\ o.round = rounds - 1
        /\ \E k \in 1..Len(crawled_pages) :
            /\ crawled_pages[k].url = o.url
            /\ \E n \in 1..Len(crawled_pages[k].links) :
                LinkAccepted(crawled_pages[k].links[n])

\* C23: at a round boundary the crawl stops exactly when the claimed stop
\* condition holds and else runs the next round, so a crawl that returns
\* with page budget left and a frontier left has run a round for every depth
\* 0..max_depth.
C23_RoundTransition ==
    /\ pc = "while" => (WhileCondition <=> ~ClaimedStop)
    /\ pc = "returned" => ClaimedStop
    /\ (pc = "returned" /\ Len(crawled_pages) < max_pages /\ FrontierLeft)
       => rounds = max_depth + 1

\* C24: a page fetched with HTTP 200 whose extracted content is empty is a
\* failed result: no task returns success with empty content, no such page
\* is among crawled_pages (so none counts toward max_pages), and every link
\* in crawl_queue was found on a collected page that has content.
C24_EmptyContentFails ==
    /\ \A i \in 1..Len(results) :
          (results[i].kind = "result" /\ results[i].success)
              => results[i].content # <<>>
    /\ \A k \in 1..Len(crawled_pages) : crawled_pages[k].content # <<>>
    /\ \A k \in 1..Len(crawl_queue) :
          queue_depth[k] > 0 =>
              \E j \in 1..Len(crawled_pages) :
                  /\ crawled_pages[j].content # <<>>
                  /\ \E n \in 1..Len(crawled_pages[j].links) :
                        crawled_pages[j].links[n] = crawl_queue[k]

\* The texts of the main-content chunks the call has added for a URL, in
\* the order they were added.
BodyChunks(url) ==
    LET IsBody(e) == e.source_url = url /\ e.content_type = "main_content"
        kept == SelectSeq(AddedByCall, IsBody)
    IN [k \in 1..Len(kept) |-> kept[k].text]

\* C25: the body chunks indexed for a crawled page are cut from the markdown
\* rendering the extractor made of the page when that rendering is not
\* empty, and from the plain text only when it is empty.
C25_MarkdownPreferred ==
    \A k \in 1..Len(page_log) :
        page_log[k].success =>
            LET page == crawl_results[k]
            IN BodyChunks(page.url) =
                  split_text(IF page.extracted.markdown # <<>>
                             THEN page.extracted.markdown
                             ELSE page.extracted.text)

\* C26: among the chunks indexed for one source URL, the chunks of one
\* content type have strictly increasing chunk_index in the order they were
\* emitted.
C26_ChunkIndexIncreasing ==
    \A i, j \in 1..Len(AddedByCall) :
        (/\ i < j
         /\ AddedByCall[i].source_url = AddedByCall[j].source_url
         /\ AddedByCall[i].content_type = AddedByCall[j].content_type)
        => AddedByCall[i].chunk_index < AddedByCall[j].chunk_index

\* The structured elements of a page that are claimed to be chunks of their
\* own: every heading, code block, table and list, and every paragraph of
\* at least 50 characters.
RECURSIVE ParagraphsFrom50(_)
ParagraphsFrom50(paragraphs) ==
    IF paragraphs = <<>> THEN <<>>
    ELSE (IF Head(paragraphs).length >= 50 THEN <<Head(paragraphs)>> ELSE <<>>)
         \o ParagraphsFrom50(Tail(paragraphs))

ClaimedElements(structured_content) ==
    Typed("heading", structured_content.headings)
        \o Typed("code_block", structured_content.code_blocks)
        \o Typed("table", structured_content.tables)
        \o Typed("list", ListTexts(structured_content.lists))
        \o Typed("paragraph", ParagraphsFrom50(structured_content.paragraphs))

\* C27: for every indexed page each claimed structured element is one chunk
\* of its own content type next to the body chunks, and the page's
\* chunk_count is the number of body chunks plus the number of those
\* elements.
C27_ElementsAreChunks ==
    \A k \in 1..Len(page_log) :
        page_log[k].success =>
            LET page == crawl_results[k]
                claimed == ClaimedElements(page.structured_content)
            IN /\ page_log[k].chunks =
                    Len(BodyChunks(page.url)) + Len(claimed)
               /\ \A n \in 1..Len(claimed) :
                    Cardinality({j \in 1..Len(AddedByCall) :
                        /\ AddedByCall[j].source_url = page.url
                        /\ AddedByCall[j].content_type = claimed[n].content_type
                        /\ AddedByCall[j].text = claimed[n].text}) = 1

\* C28: the total_chunks of the result crawl_and_index_website returns is
\* the number of chunks added to the collection during the call, also when
\* an add failed part-way through a page.
C28_TotalIsWhatWasAdded ==
    (index_pc = "returned" /\ "total_chunks" \in index_result.keys)
        => index_result.total_chunks = Len(AddedByCall)

\* C29: _split_content_into_chunks loses no text. For a content longer than
\* chunk_size the window start is never negative and never behind the start
\* of an earlier window, the next window starts no later than the last one
\* ended, and once the call has returned every character position of the
\* content lies in the window [start, end) of a chunk that was emitted.
C29_NoTextLost ==
    (split_pc \in {"loop", "returned", "prepared"}
     /\ Len(content) > chunk_size)
    => /\ start >= 0
       /\ \A w \in windows : w.lo <= start
       /\ windows # {} => start <= end
       /\ split_pc # "loop" =>
              \A p \in 0..(Len(content) - 1) :
                  \E w \in windows : w.emitted /\ w.lo <= p /\ p < w.hi

\* C30: a budget passed explicitly is honoured also when it is 0: a call of
\* crawl_website_recursive with max_pages = 0 or with max_depth = 0 issues
\* no fetch, and what it returns is the empty list.
C30_ZeroBudgetHonoured ==
    (Started /\ (args.max_pages = Some(0) \/ args.max_depth = Some(0)))
    => /\ fetch_log = <<>>
       /\ pc = "returned" => crawled_pages = <<>>

====
